---- MODULE Spec2Model ----
(***************************************************************************)
(* Model of Copyright_Violation.py: one run of main() over a file tree.    *)
(* Paths are sequences of names below the working directory; a name is a   *)
(* record [stem, ext] so that Path.stem and the "*.mp3" glob are computed  *)
(* rather than assumed.                                                    *)
(***************************************************************************)
EXTENDS Integers, Sequences, FiniteSets, TLC

VARIABLES
    on_path,     \* names of the executables found on the search path
    run,         \* number of the run in progress
    earlier,     \* tracks the separation tool was run on in earlier runs
    args,        \* parsed command line: [sweep, split, cpu, stems]
    pc,          \* position of main()
    ret,         \* where run_demucs returns to ("sweep" or "reveal")
    files,       \* regular files of the tree (paths)
    dirs,        \* directories of the tree (paths)
    ffmpeg_path, \* result of find_executable("ffmpeg")
    demucs_cmd,  \* invocation prefix of the separation tool
    device,      \* "cpu" or "cuda"
    stems,       \* active stem list
    model_name,  \* active model
    todo,        \* children of base the sweep loop has still to visit
    queue,       \* tracks run_demucs has still to process
    out_dir,     \* output container of the running run_demucs call
    mp3_list,    \* result of download_audio
    events,      \* external actions and error log lines, in order
    checks,      \* completeness checks made, with what the tree held then
    calls,       \* run_demucs calls: [phase, out, batch]
    visited,     \* directories whose entries the sweep has listed
    files0,      \* files present when the run started
    produced,    \* files written by this run's download call
    exit_status  \* process exit status, -1 while running

vars == <<on_path, run, earlier, args, pc, ret, files, dirs, ffmpeg_path, demucs_cmd, device, stems,
          model_name, todo, queue, out_dir, mp3_list, events, checks, calls,
          visited, files0, produced, exit_status>>

(* ---------------------------------------------------------------- bounds *)

\* A failing separation run leaves at most this many stem files behind.
MaxPartial == 0
\* The download call produces at most this many distinct titles.
MaxNew == 1
\* The program is run at most this many times over the same tree.
MaxRuns == 2

(* ----------------------------------------------------------------- names *)

Dir(n) == [stem |-> n, ext |-> ""]
Mp3(n) == [stem |-> n, ext |-> "mp3"]
Txt(n) == [stem |-> n, ext |-> "txt"]

STEMS_6 == <<Mp3("vocals"), Mp3("drums"), Mp3("bass"),
             Mp3("guitar"), Mp3("piano"), Mp3("other")>>
STEMS_4 == <<Mp3("vocals"), Mp3("drums"), Mp3("bass"), Mp3("other")>>

NoPath == <<Dir("<none>")>>

base == <<>>
Join(p, n) == Append(p, n)
Parent(p) == SubSeq(p, 1, Len(p) - 1)
Name(p) == p[Len(p)]
\* Path.stem as a directory name: the final component without its suffix
StemOf(p) == Dir(Name(p).stem)

Range(s) == {s[i] : i \in 1..Len(s)}
\* every enumeration, without repetition, of a finite set
Orders(S) == {s \in [1..Cardinality(S) -> S] : Range(s) = S}

exists(p) == p \in files \cup dirs
is_dir(p) == p \in dirs
\* Path.iterdir: the entries directly inside p
iterdir(p) == {q \in files \cup dirs : Len(q) = Len(p) + 1 /\ Parent(q) = p}
\* Path.glob("*.mp3"): the entries directly inside p whose name ends in .mp3
glob_mp3(p) == {q \in iterdir(p) : Name(q).ext = "mp3"}

ModelDir(m) == Dir(m)
StemsFor(n) == IF n = 6 THEN STEMS_6 ELSE STEMS_4
\* the two model names exchanged
ModelForSwapped(n) == IF n = 6 THEN "htdemucs" ELSE "htdemucs_6s"
ModelFor(n) == IF n = 6 THEN "htdemucs_6s" ELSE "htdemucs"

\* target_dir = folder / model_name / mp3.stem
target_dir(folder, model, mp3) == Join(Join(folder, ModelDir(model)), StemOf(mp3))

\* needs_split looking for the output beside the track, without the model folder
needs_split_no_model(folder, model, st, mp3) ==
    \/ ~exists(Join(folder, StemOf(mp3)))
    \/ ~(\A i \in 1..Len(st) : exists(Join(Join(folder, StemOf(mp3)), st[i])))

\* needs_split always expecting the six stems, whatever --stems says
needs_split_six(folder, model, st, mp3) ==
    \/ ~exists(target_dir(folder, model, mp3))
    \/ ~(\A i \in 1..Len(STEMS_6) :
            exists(Join(target_dir(folder, model, mp3), STEMS_6[i])))

\* the queueing condition of sweep_directories and of main
needs_split(folder, model, st, mp3) ==
    \/ ~exists(target_dir(folder, model, mp3))
    \/ ~(\A i \in 1..Len(st) : exists(Join(target_dir(folder, model, mp3), st[i])))

\* the filter queueing every track it is given
PendingAll(folder, model, st, mp3s) == mp3s

\* the order-preserving filter that builds pending / to_split
RECURSIVE Pending(_, _, _, _)
Pending(folder, model, st, mp3s) ==
    IF mp3s = <<>> THEN <<>>
    ELSE IF needs_split(folder, model, st, Head(mp3s))
         THEN <<Head(mp3s)>> \o Pending(folder, model, st, Tail(mp3s))
         ELSE Pending(folder, model, st, Tail(mp3s))

(* ------------------------------------------------------- external tools *)

\* the stem files the separation tool writes for a model
ToolStems(model) == IF model = "htdemucs_6s" THEN STEMS_6 ELSE STEMS_4

\* what a run of the tool on mp3 with -n model --out out leaves after k stems
Output(out, model, mp3, k) ==
    [d |-> {Join(out, ModelDir(model)), target_dir(out, model, mp3)},
     f |-> {Join(target_dir(out, model, mp3), ToolStems(model)[i]) : i \in 1..k}]

Min(a, b) == IF a < b THEN a ELSE b

TitlePool == <<"d", "a", "e">>
Titles == {TitlePool[i] : i \in 1..Min(MaxNew, Len(TitlePool))}

\* resolved executables are kept as strings; None is the absence signal
None == "None"
FfmpegPath == "/usr/bin/ffmpeg"
DemucsPath == "/usr/bin/demucs"
Fallback == <<"python", "-m", "demucs">>

(* ------------------------------------------------------------------ Init *)

download_dir == Join(base, Dir("downloads"))
Album == Join(base, Dir("Album"))
Notes == Join(base, Dir("Notes"))

NoTree == [d |-> {}, f |-> {}]
Plus(t, u) == [d |-> t.d \cup u.d, f |-> t.f \cup u.f]

\* the model an earlier run left its output under
Earlier == "htdemucs_6s"

\* the states <cwd>/downloads may be in before a run: absent, or holding a
\* track with partial or complete output of an earlier run
DownloadsSeeds ==
    LET a == Join(download_dir, Mp3("a"))
        has == [d |-> {download_dir}, f |-> {a}]
    IN  { NoTree,
          Plus(has, Output(download_dir, Earlier, a, 1)),
          Plus(has, Output(download_dir, Earlier, a, Len(ToolStems(Earlier)))) }

\* the rest of the working directory: a music folder whose first track an
\* earlier run completed, with an audio file directly in base, or with a
\* second track and a folder that holds no audio file but a nested one
OtherSeeds ==
    LET a == Join(Album, Mp3("a"))
        b == Join(Album, Mp3("b"))
        done == Output(Album, Earlier, a, Len(ToolStems(Earlier)))
    IN  { NoTree,
          Plus([d |-> {Album}, f |-> {a, Join(base, Mp3("r"))}], done),
          Plus(Plus([d |-> {Album}, f |-> {a, b}], done),
               [d |-> {Notes, Join(Notes, Dir("old"))},
                f |-> {Join(Notes, Txt("n")),
                       Join(Join(Notes, Dir("old")), Mp3("c"))}]) }

Args == [sweep : BOOLEAN, split : BOOLEAN, cpu : BOOLEAN, stems : {4, 6}]

Init ==
    /\ on_path \in SUBSET {"ffmpeg", "demucs"}
    /\ args \in Args
    /\ run = 1
    /\ earlier = {}
    /\ \E t1 \in DownloadsSeeds, t2 \in OtherSeeds :
         /\ files = t1.f \cup t2.f
         /\ dirs = t1.d \cup t2.d
    /\ files0 = files
    /\ pc = "start"
    /\ ret = "none"
    /\ ffmpeg_path = None
    /\ demucs_cmd = <<>>
    /\ device = "unset"
    /\ stems = <<>>
    /\ model_name = "unset"
    /\ todo = {}
    /\ queue = <<>>
    /\ out_dir = NoPath
    /\ mp3_list = <<>>
    /\ events = <<>>
    /\ checks = {}
    /\ calls = <<>>
    /\ visited = {}
    /\ produced = {}
    /\ exit_status = -1

(* ----------------------------------------------------- main: tool lookup *)

\* an entry of the record of external actions: a tool run or error line of
\* the running run_demucs call, or a step of main itself
DemucsEvent(kind, mp3, ok) ==
    [kind |-> kind, phase |-> calls[Len(calls)].phase, path |-> mp3, ok |-> ok,
     call |-> Len(calls), out |-> out_dir,
     cmd |-> [prefix |-> demucs_cmd, device |-> device, model |-> model_name]]
MainEvent(kind, path, ok) ==
    [kind |-> kind, phase |-> "main", path |-> path, ok |-> ok,
     call |-> 0, out |-> NoPath,
     cmd |-> [prefix |-> <<>>, device |-> "", model |-> ""]]

\* shutil.which: the resolved path, or None
find_executable(name, path) == IF name \in on_path THEN path ELSE None

\* device = "cpu" if args.cpu or not HAS_CUDA else "cuda"
DeviceFor(cpu, has_cuda) == IF cpu \/ ~has_cuda THEN "cpu" ELSE "cuda"

\* the lookup result never tested
ffmpeg_missing_ignored(path) == FALSE

\* if not ffmpeg_path
ffmpeg_missing(path) == path = None

\* demucs_cmd: the executable, or the interpreter-module fallback
DemucsCmd(path) == IF path # None THEN <<path>> ELSE Fallback

\* find_executable("ffmpeg") returns None: logging.error, sys.exit(1)
FatalExit ==
    /\ pc = "start"
    /\ ffmpeg_missing(find_executable("ffmpeg", FfmpegPath))
    /\ pc' = "exited"
    /\ exit_status' = 1
    /\ UNCHANGED <<on_path, run, earlier, args, ret, files, dirs, ffmpeg_path,
                   demucs_cmd, device, stems, model_name, todo, queue, out_dir,
                   mp3_list, events, checks, calls, visited, files0, produced>>

\* both lookups, device and model selection, and the test of args.sweep
ResolveTools ==
    /\ pc = "start"
    /\ ~ffmpeg_missing(find_executable("ffmpeg", FfmpegPath))
    /\ ffmpeg_path' = find_executable("ffmpeg", FfmpegPath)
    /\ demucs_cmd' = DemucsCmd(find_executable("demucs", DemucsPath))
    /\ \E HAS_CUDA \in BOOLEAN : device' = DeviceFor(args.cpu, HAS_CUDA)
    /\ stems' = StemsFor(args.stems)
    /\ model_name' = ModelFor(args.stems)
    /\ IF args.sweep
         THEN pc' = "sweep" /\ todo' = iterdir(base) /\ visited' = {base}
         ELSE pc' = "mkdir" /\ todo' = {} /\ visited' = {}
    /\ UNCHANGED <<on_path, run, earlier, args, ret, files, dirs, queue, out_dir,
                   mp3_list, events, checks, calls, files0, produced, exit_status>>

(* ------------------------------------------------------ sweep_directories *)

StemNames == Range(STEMS_6) \cup Range(STEMS_4)

\* what the tree holds for a track when it is examined
Check(phase, folder, mp3) ==
    [phase |-> phase, track |-> mp3, target |-> target_dir(folder, model_name, mp3),
     has_dir |-> exists(target_dir(folder, model_name, mp3)),
     present |-> {n \in StemNames :
                    exists(Join(target_dir(folder, model_name, mp3), n))}]

Call(phase, folder, batch) == [phase |-> phase, out |-> folder, batch |-> batch]

\* a recursive listing (rglob) in place of glob
sweep_mp3s_recursive(folder) ==
    {q \in files \cup dirs : /\ Len(q) > Len(folder)
                             /\ SubSeq(q, 1, Len(folder)) = folder
                             /\ Name(q).ext = "mp3"}

\* the entries of a folder the sweep looks at: folder.glob("*.mp3")
sweep_mp3s(folder) == glob_mp3(folder)

\* an entry that is not a directory, or a directory without audio files
SweepSkip ==
    /\ pc = "sweep"
    /\ \E folder \in todo :
         /\ todo' = todo \ {folder}
         /\ \/ ~is_dir(folder) /\ visited' = visited
            \/ is_dir(folder) /\ sweep_mp3s(folder) = {}
                              /\ visited' = visited \cup {folder}
    /\ UNCHANGED <<on_path, run, earlier, args, pc, ret, files, dirs, ffmpeg_path,
                   demucs_cmd, device, stems, model_name, queue, out_dir, mp3_list,
                   events, checks, calls, files0, produced, exit_status>>

\* a directory with audio files, none pending: "all stems present"
SweepAllPresent ==
    /\ pc = "sweep"
    /\ \E folder \in todo :
         /\ is_dir(folder)
         /\ sweep_mp3s(folder) # {}
         /\ \E mp3s \in Orders(sweep_mp3s(folder)) :
              /\ Pending(folder, model_name, stems, mp3s) = <<>>
              /\ checks' = checks \cup {Check("sweep", folder, m) : m \in Range(mp3s)}
         /\ todo' = todo \ {folder}
         /\ visited' = visited \cup {folder}
    /\ UNCHANGED <<on_path, run, earlier, args, pc, ret, files, dirs, ffmpeg_path,
                   demucs_cmd, device, stems, model_name, queue, out_dir, mp3_list,
                   events, calls, files0, produced, exit_status>>

\* a directory with pending audio files: run_demucs(pending, folder, ...)
SweepSplit ==
    /\ pc = "sweep"
    /\ \E folder \in todo :
         /\ is_dir(folder)
         /\ sweep_mp3s(folder) # {}
         /\ \E mp3s \in Orders(sweep_mp3s(folder)) :
              /\ Pending(folder, model_name, stems, mp3s) # <<>>
              /\ checks' = checks \cup {Check("sweep", folder, m) : m \in Range(mp3s)}
              /\ queue' = Pending(folder, model_name, stems, mp3s)
              /\ calls' = Append(calls,
                                 Call("sweep", folder,
                                      Pending(folder, model_name, stems, mp3s)))
         /\ out_dir' = folder
         /\ todo' = todo \ {folder}
         /\ visited' = visited \cup {folder}
    /\ ret' = "sweep"
    /\ pc' = "demucs"
    /\ UNCHANGED <<on_path, run, earlier, args, files, dirs, ffmpeg_path, demucs_cmd,
                   device, stems, model_name, mp3_list, events, files0, produced,
                   exit_status>>

\* the loop over base.iterdir() is exhausted
SweepDone ==
    /\ pc = "sweep"
    /\ todo = {}
    /\ pc' = "mkdir"
    /\ UNCHANGED <<on_path, run, earlier, args, ret, files, dirs, ffmpeg_path,
                   demucs_cmd, device, stems, model_name, todo, queue, out_dir,
                   mp3_list, events, checks, calls, visited, files0, produced,
                   exit_status>>

(* -------------------------------------------------------------- run_demucs *)

\* subprocess.run(cmd, check=True) returns: every stem of the model is written
DemucsOk ==
    /\ pc = "demucs"
    /\ queue # <<>>
    /\ LET o == Output(out_dir, model_name, Head(queue), Len(ToolStems(model_name)))
       IN  /\ files' = files \cup o.f
           /\ dirs' = dirs \cup o.d
    /\ events' = Append(events, DemucsEvent("demucs", Head(queue), TRUE))
    /\ queue' = Tail(queue)
    /\ UNCHANGED <<on_path, run, earlier, args, pc, ret, ffmpeg_path, demucs_cmd,
                   device, stems, model_name, todo, out_dir, mp3_list, checks,
                   calls, visited, files0, produced, exit_status>>

\* what the except clause does with a CalledProcessError: one logging.error
on_failure(ev, mp3) == Append(ev, DemucsEvent("error", mp3, FALSE))
\* a failure that ends the batch
after_failure_abort(q) == <<>>

\* the tracks left to process once one has failed
after_failure(q) == Tail(q)

\* the tool exits non-zero, leaving nothing or a partial target directory
DemucsFail ==
    /\ pc = "demucs"
    /\ queue # <<>>
    /\ \E made \in BOOLEAN, k \in 0..Min(MaxPartial, Len(ToolStems(model_name))) :
         /\ k > 0 => made
         /\ LET o == Output(out_dir, model_name, Head(queue), k)
            IN  /\ files' = files \cup o.f
                /\ dirs' = IF made THEN dirs \cup o.d ELSE dirs
    /\ events' = on_failure(Append(events, DemucsEvent("demucs", Head(queue), FALSE)),
                            Head(queue))
    /\ queue' = after_failure(queue)
    /\ UNCHANGED <<on_path, run, earlier, args, pc, ret, ffmpeg_path, demucs_cmd,
                   device, stems, model_name, todo, out_dir, mp3_list, checks,
                   calls, visited, files0, produced, exit_status>>

\* the for loop of run_demucs ends and the call returns
DemucsReturn ==
    /\ pc = "demucs"
    /\ queue = <<>>
    /\ pc' = ret
    /\ UNCHANGED <<on_path, run, earlier, args, ret, files, dirs, ffmpeg_path,
                   demucs_cmd, device, stems, model_name, todo, queue, out_dir,
                   mp3_list, events, checks, calls, visited, files0, produced,
                   exit_status>>

(* ------------------------------------------------- main: download and split *)

\* download_dir.mkdir(exist_ok=True)
EnsureDownloadDir ==
    /\ pc = "mkdir"
    /\ dirs' = dirs \cup {download_dir}
    /\ pc' = "download"
    /\ UNCHANGED <<on_path, run, earlier, args, ret, files, ffmpeg_path, demucs_cmd,
                   device, stems, model_name, todo, queue, out_dir, mp3_list,
                   events, checks, calls, visited, files0, produced, exit_status>>

\* the files "<title>.mp3" the download engine may write into out
Downloadable(out) == {Join(out, Mp3(t)) : t \in Titles}

\* download_audio returns: the engine wrote some tracks, and the result is the
\* listing of the directory, in the order the listing happens to give
DownloadOk ==
    /\ pc = "download"
    /\ \E new \in SUBSET Downloadable(download_dir) :
         /\ files' = files \cup new
         /\ produced' = new
    /\ dirs' = dirs
    /\ mp3_list' \in Orders(glob_mp3(download_dir)')
    /\ events' = Append(events, MainEvent("download", download_dir, TRUE))
    /\ pc' = "split"
    /\ UNCHANGED <<on_path, run, earlier, args, ret, ffmpeg_path, demucs_cmd,
                   device, stems, model_name, todo, queue, out_dir, checks, calls,
                   visited, files0, exit_status>>

\* the download failure caught and the run carried on with the listing
DownloadFailCaught ==
    /\ pc = "download"
    /\ \E new \in SUBSET {Join(download_dir, Mp3(t)) : t \in Titles} :
         /\ files' = files \cup new
         /\ produced' = new
    /\ dirs' = dirs
    /\ mp3_list' \in Orders(glob_mp3(download_dir)')
    /\ events' = Append(events, MainEvent("download", download_dir, FALSE))
    /\ pc' = "split"
    /\ UNCHANGED <<on_path, run, earlier, args, ret, ffmpeg_path, demucs_cmd,
                   device, stems, model_name, todo, queue, out_dir, checks, calls,
                   visited, files0, exit_status>>

\* ydl.download raises: nothing in main catches it
DownloadFail ==
    /\ pc = "download"
    /\ \E new \in SUBSET Downloadable(download_dir) :
         /\ files' = files \cup new
         /\ produced' = new
    /\ events' = Append(events, MainEvent("download", download_dir, FALSE))
    /\ pc' = "crashed"
    /\ exit_status' = 1
    /\ UNCHANGED <<on_path, run, earlier, args, ret, dirs, ffmpeg_path, demucs_cmd,
                   device, stems, model_name, todo, queue, out_dir, mp3_list,
                   checks, calls, visited, files0>>

\* the test of args.split forgotten
split_wanted_any == mp3_list # <<>>

\* if args.split and mp3_list
split_wanted == args.split /\ mp3_list # <<>>

\* --split not given, or nothing listed
SplitSkip ==
    /\ pc = "split"
    /\ ~split_wanted
    /\ pc' = "reveal"
    /\ UNCHANGED <<on_path, run, earlier, args, ret, files, dirs, ffmpeg_path,
                   demucs_cmd, device, stems, model_name, todo, queue, out_dir,
                   mp3_list, events, checks, calls, visited, files0, produced,
                   exit_status>>

\* every listed track is complete: each is logged as skipped
SplitNone ==
    /\ pc = "split"
    /\ split_wanted
    /\ Pending(download_dir, model_name, stems, mp3_list) = <<>>
    /\ checks' = checks \cup {Check("split", download_dir, m) : m \in Range(mp3_list)}
    /\ pc' = "reveal"
    /\ UNCHANGED <<on_path, run, earlier, args, ret, files, dirs, ffmpeg_path,
                   demucs_cmd, device, stems, model_name, todo, queue, out_dir,
                   mp3_list, events, calls, visited, files0, produced, exit_status>>

\* run_demucs(to_split, download_dir, ...)
SplitQueue ==
    /\ pc = "split"
    /\ split_wanted
    /\ Pending(download_dir, model_name, stems, mp3_list) # <<>>
    /\ checks' = checks \cup {Check("split", download_dir, m) : m \in Range(mp3_list)}
    /\ queue' = Pending(download_dir, model_name, stems, mp3_list)
    /\ calls' = Append(calls, Call("split", download_dir,
                                   Pending(download_dir, model_name, stems, mp3_list)))
    /\ out_dir' = download_dir
    /\ ret' = "reveal"
    /\ pc' = "demucs"
    /\ UNCHANGED <<on_path, run, earlier, args, files, dirs, ffmpeg_path, demucs_cmd,
                   device, stems, model_name, todo, mp3_list, events, visited,
                   files0, produced, exit_status>>

(* ------------------------------------------------------ main: reveal, exit *)

\* if mp3_list: open_folder(mp3_list[0].parent); then "Processing complete."
Reveal ==
    /\ pc = "reveal"
    /\ mp3_list # <<>>
    /\ events' = Append(events, MainEvent("reveal", Parent(mp3_list[1]), TRUE))
    /\ pc' = "done"
    /\ exit_status' = 0
    /\ UNCHANGED <<on_path, run, earlier, args, ret, files, dirs, ffmpeg_path,
                   demucs_cmd, device, stems, model_name, todo, queue, out_dir,
                   mp3_list, checks, calls, visited, files0, produced>>

\* nothing listed: "Processing complete." alone
Finish ==
    /\ pc = "reveal"
    /\ mp3_list = <<>>
    /\ pc' = "done"
    /\ exit_status' = 0
    /\ UNCHANGED <<on_path, run, earlier, args, ret, files, dirs, ffmpeg_path,
                   demucs_cmd, device, stems, model_name, todo, queue, out_dir,
                   mp3_list, events, checks, calls, visited, files0, produced>>

Next ==
    \/ FatalExit
    \/ ResolveTools
    \/ SweepSkip
    \/ SweepAllPresent
    \/ SweepSplit
    \/ SweepDone
    \/ DemucsOk
    \/ DemucsFail
    \/ DemucsReturn
    \/ EnsureDownloadDir
    \/ DownloadOk
    \/ DownloadFail
    \/ SplitSkip
    \/ SplitNone
    \/ SplitQueue
    \/ Reveal
    \/ Finish

Spec == Init /\ [][Next]_vars

(* ------------------------------------------------------------- a second run *)

Invoked == {events[i].path : i \in {j \in 1..Len(events) : events[j].kind = "demucs"}}
Failed == {events[i].path : i \in {j \in 1..Len(events) :
                                     events[j].kind = "demucs" /\ ~events[j].ok}}

\* the program has ended, after separation runs that all succeeded, and is
\* started again with the same command line over the tree it left behind
Restart ==
    /\ pc \in {"done", "crashed"}
    /\ run < MaxRuns
    /\ Failed = {}
    /\ run' = run + 1
    /\ earlier' = earlier \cup Invoked
    /\ files0' = files
    /\ pc' = "start"
    /\ ret' = "none"
    /\ ffmpeg_path' = None
    /\ demucs_cmd' = <<>>
    /\ device' = "unset"
    /\ stems' = <<>>
    /\ model_name' = "unset"
    /\ todo' = {}
    /\ queue' = <<>>
    /\ out_dir' = NoPath
    /\ mp3_list' = <<>>
    /\ events' = <<>>
    /\ checks' = {}
    /\ calls' = <<>>
    /\ visited' = {}
    /\ produced' = {}
    /\ exit_status' = -1
    /\ UNCHANGED <<on_path, args, files, dirs>>

NextRerun == Next \/ Restart

SpecRerun == Init /\ [][NextRerun]_vars

(* ------------------------------------------------------------------ claims *)

Idx(kind) == {i \in 1..Len(events) : events[i].kind = kind}
PhaseIdx(kind, phase) == {i \in Idx(kind) : events[i].phase = phase}
SweepCalls == {c \in 1..Len(calls) : calls[c].phase = "sweep"}

\* a check found every name of the active stem set in the target directory
Complete(c) == c.has_dir /\ Range(StemsFor(args.stems)) \subseteq c.present

ChecksOf(phase, track) == {c \in checks : c.phase = phase /\ c.track = track}

\* C1: in the sweep and in the split step, the separation tool is never run
\* for a track whose target directory held every file name of the active stem
\* set when the track was checked; every run follows a check that found the
\* directory or a name missing.
C1_NoRunWhenComplete ==
    \A i \in Idx("demucs") :
        /\ ChecksOf(events[i].phase, events[i].path) # {}
        /\ \A c \in ChecksOf(events[i].phase, events[i].path) : ~Complete(c)

\* a track found complete by the sweep and one by the split step, in a run
\* that ran the tool for another track
C1_Witness ==
    /\ pc = "done"
    /\ Idx("demucs") # {}
    /\ \E c \in checks : c.phase = "sweep" /\ Complete(c)
    /\ \E c \in checks : c.phase = "split" /\ Complete(c)

CallRuns(c) == SelectSeq(events, LAMBDA e : e.kind = "demucs" /\ e.call = c)
CallErrors(c) == SelectSeq(events, LAMBDA e : e.kind = "error" /\ e.call = c)
FailedRuns(c) == SelectSeq(events, LAMBDA e : e.kind = "demucs" /\ e.call = c /\ ~e.ok)
Paths(evs) == [i \in 1..Len(evs) |-> evs[i].path]
\* how many tracks of call c run_demucs has dealt with
Handled(c) ==
    IF c = Len(calls) /\ pc = "demucs"
    THEN Len(calls[c].batch) - Len(queue)
    ELSE Len(calls[c].batch)

\* C2: whichever tracks of a batch fail, run_demucs runs the tool once for each
\* track of the batch in input order, logs one error per failing track, and
\* returns normally: only a failed download ends a run abnormally.
C2_BatchIsolation ==
    /\ \A c \in 1..Len(calls) :
          /\ Paths(CallRuns(c)) = SubSeq(calls[c].batch, 1, Handled(c))
          /\ Paths(CallErrors(c)) = Paths(FailedRuns(c))
    /\ pc = "crashed" => events[Len(events)].kind = "download"

\* a returned call whose batch of two lost its first track and still ran the second
C2_Witness ==
    /\ pc # "demucs"
    /\ \E c \in 1..Len(calls) :
          /\ Len(calls[c].batch) = 2
          /\ Len(CallRuns(c)) = 2
          /\ ~CallRuns(c)[1].ok

\* the audio files directly inside d when the run started
Audio0(d) == {f \in files0 : Len(f) = Len(d) + 1 /\ Parent(f) = d /\ Name(f).ext = "mp3"}
\* those the sweep found incomplete when it checked them
Incomplete0(d) == {f \in Audio0(d) : \E c \in ChecksOf("sweep", f) : ~Complete(c)}

\* C3: the sweep calls run_demucs at most once per immediate child directory
\* of the base, with that directory as output container and exactly its
\* incomplete audio files as batch; a child directory without audio files, or
\* with complete ones only, gets no call and no error.
C3_SweepBatches ==
    /\ \A c1, c2 \in SweepCalls : calls[c1].out = calls[c2].out => c1 = c2
    /\ \A c \in SweepCalls :
          LET pending == Incomplete0(calls[c].out)
          IN  /\ Len(calls[c].out) = 1
              /\ calls[c].out \in visited
              /\ Range(calls[c].batch) = pending
              /\ Len(calls[c].batch) = Cardinality(pending)
    /\ \A d \in visited \ {base} :
          LET pending == Incomplete0(d)
          IN  /\ \A f \in Audio0(d) : ChecksOf("sweep", f) # {}
              /\ pending = {} =>
                    /\ \A c \in SweepCalls : calls[c].out # d
                    /\ \A i \in 1..Len(events) :
                          events[i].phase = "sweep" => events[i].out # d
              /\ pending # {} => \E c \in SweepCalls : calls[c].out = d

\* the sweep is over: a folder of two audio files, one complete, got one call
\* for the other alone, and a folder without audio files was passed over
C3_Witness ==
    /\ pc = "mkdir"
    /\ Notes \in visited
    /\ Cardinality(SweepCalls) = 1
    /\ \E c \in SweepCalls :
          /\ Cardinality(Audio0(calls[c].out)) = 2
          /\ Len(calls[c].batch) = 1
          /\ Len(CallRuns(c)) = 1

\* C4: when every separation run of a run succeeded, a following run with the
\* same command line over the tree left behind runs the tool for no track the
\* earlier run had it process.
C4_RerunIsNoOp ==
    run > 1 => Invoked \cap earlier = {}

\* a second run has ended after checking, in both steps, tracks the first processed
C4_Witness ==
    /\ run = 2
    /\ pc = "done"
    /\ \E c \in checks : c.phase = "sweep" /\ c.track \in earlier /\ Complete(c)
    /\ \E c \in checks : c.phase = "split" /\ c.track \in earlier /\ Complete(c)

\* C5: the run takes its early exit, with a non-zero status, exactly when
\* ffmpeg is not on the search path, and has then swept, downloaded, separated
\* and revealed nothing, whatever the flags; a missing demucs never ends the
\* run and only selects the interpreter-module prefix.
C5_OnlyFfmpegIsFatal ==
    /\ pc = "exited" <=> (pc # "start" /\ "ffmpeg" \notin on_path)
    /\ pc = "exited" =>
          /\ exit_status = 1
          /\ events = <<>> /\ calls = <<>> /\ checks = {} /\ visited = {}
          /\ files = files0 /\ produced = {}
    /\ (pc \notin {"start", "exited"}) =>
          demucs_cmd = IF "demucs" \in on_path THEN <<DemucsPath>> ELSE Fallback

\* the early exit of a run given every flag, with demucs installed
C5_Witness ==
    /\ pc = "exited"
    /\ args.sweep /\ args.split /\ args.cpu
    /\ "demucs" \in on_path

Rank(e) ==
    CASE e.kind = "download" -> 2
      [] e.kind = "reveal" -> 4
      [] OTHER -> IF e.phase = "sweep" THEN 1 ELSE 3

AfterDownload == pc \in {"split", "reveal", "done", "crashed"} \/ (pc = "demucs" /\ ret = "reveal")

\* C6: past tool resolution the external actions come in the order sweep
\* separations (only with --sweep), one download call (always), split
\* separations (only with --split and a non-empty list), at most one reveal
\* (iff the list is non-empty, of the parent of its first entry), completion
\* with status 0; no separation follows the reveal or falls between the sweep
\* and the download.
C6_LinearOrder ==
    /\ \A i \in 1..Len(events) - 1 : Rank(events[i]) <= Rank(events[i + 1])
    /\ Cardinality(Idx("download")) = (IF AfterDownload THEN 1 ELSE 0)
    /\ PhaseIdx("demucs", "sweep") # {} => args.sweep
    /\ PhaseIdx("demucs", "split") # {} => args.split /\ mp3_list # <<>>
    /\ Cardinality(Idx("reveal")) = (IF pc = "done" /\ mp3_list # <<>> THEN 1 ELSE 0)
    /\ \A i \in Idx("reveal") :
          /\ i = Len(events)
          /\ events[i].path = Parent(mp3_list[1])
          /\ events[i].path = download_dir
    /\ exit_status = 0 <=> pc = "done"
    /\ pc = "done" => \A i \in Idx("download") : events[i].ok

\* a completed run that separated in the sweep and in the split step and revealed
C6_Witness ==
    /\ pc = "done"
    /\ PhaseIdx("demucs", "sweep") # {}
    /\ PhaseIdx("demucs", "split") # {}
    /\ Idx("reveal") # {}

\* C7: the split step never hands the separation tool an audio file that was
\* in <cwd>/downloads/ before the run and that this run's download call did
\* not produce.
C7_SplitOnlyNewTracks ==
    \A i \in PhaseIdx("demucs", "split") :
        ~(events[i].path \in files0 /\ events[i].path \notin produced)

FailedDownload == \E i \in Idx("download") : ~events[i].ok

\* C8: a failure of the download call is caught nowhere: the process ends there
\* abnormally, with no split separation, no reveal and no completion, while
\* what the sweep did before stays done.
C8_DownloadFailureCrashes ==
    FailedDownload =>
        /\ pc = "crashed"
        /\ exit_status # 0
        /\ ~ENABLED Next
        /\ events[Len(events)].kind = "download"
        /\ PhaseIdx("demucs", "split") = {}
        /\ Idx("reveal") = {}
        /\ \A c \in 1..Len(calls) : calls[c].phase = "sweep"
        /\ \A i \in PhaseIdx("demucs", "sweep") :
              events[i].ok =>
                 Output(events[i].out, events[i].cmd.model, events[i].path,
                        Len(StemsFor(args.stems))).f \subseteq files

\* a run given --split whose sweep separated a track before the download failed
C8_Witness ==
    /\ FailedDownload
    /\ args.split
    /\ \E i \in PhaseIdx("demucs", "sweep") : events[i].ok
    /\ glob_mp3(download_dir) # {}

\* C9: the sweep lists the base and its immediate child directories only, and
\* checks or separates only audio files directly inside such a child: never a
\* file nested deeper (stem outputs included) and never one directly in the base.
C9_SweepOneLevel ==
    /\ \A d \in visited : Len(d) <= 1
    /\ \A c \in checks : c.phase = "sweep" =>
          Len(c.track) = 2 /\ Parent(c.track) \in visited
    /\ \A i \in 1..Len(events) : events[i].phase = "sweep" =>
          Len(events[i].path) = 2 /\ Parent(events[i].path) = events[i].out
    /\ \A c \in SweepCalls : Len(calls[c].out) = 1

\* a finished sweep that separated a track, over a tree holding an audio file
\* in the base and stem outputs three levels down
C9_Witness ==
    /\ pc = "mkdir"
    /\ PhaseIdx("demucs", "sweep") # {}
    /\ Join(base, Mp3("r")) \in files0
    /\ \E f \in files0 : Len(f) > 2 /\ Name(f).ext = "mp3"

RunsOf(t) == {i \in Idx("demucs") : events[i].path = t}

\* C10: in one run the tool is run at most twice for a track, and twice only
\* with --sweep and --split, for a track directly in <cwd>/downloads/ that the
\* split step still found incomplete after the sweep's run; otherwise once.
C10_AtMostTwice ==
    \A t \in Invoked :
        /\ Cardinality(RunsOf(t)) <= 2
        /\ Cardinality(RunsOf(t)) = 2 =>
              /\ args.sweep /\ args.split
              /\ Parent(t) = download_dir
              /\ \E i, j \in RunsOf(t) :
                    /\ i < j
                    /\ events[i].phase = "sweep"
                    /\ events[j].phase = "split"
              /\ \A c \in ChecksOf("split", t) : ~Complete(c)

\* a track of downloads run in the sweep, where it failed, and again in the split step
C10_Witness ==
    /\ pc = "done"
    /\ \E t \in Invoked : Cardinality(RunsOf(t)) = 2

====
